---- MODULE Spec2Model ----
(***************************************************************************)
(* PyIRC BanTrack extension (src/PyIRC/extensions/bantrack.py): the        *)
(* per-channel list-mode store (channel.ban_modes) and the three hooks     *)
(* that touch it: join, mode and list_numeric.                             *)
(*                                                                         *)
(* Strings, hostmasks and channel names are drawn from small sets.  A      *)
(* Python str that the code iterates over (the mode string) is a sequence  *)
(* of one-character strings.                                               *)
(***************************************************************************)
EXTENDS Integers, Sequences, FiniteSets, TLC

(* ------------------------------------------------------------------ *)
(* Bounds of the model                                                 *)
(* ------------------------------------------------------------------ *)

\* most mode letters in one MODE line
MaxModes == 2


(* ------------------------------------------------------------------ *)
(* Values                                                              *)
(* ------------------------------------------------------------------ *)

\* Python's None
None == "None"

\* parameter strings of a MODE line: a mask for a list letter, a nickname
\* for a status letter.  "x" and "X" differ only in case.
Strings == {"x", "X", "y"}

\* the values round(time()) and a list row's timestamp take
Times == {100, 200}

\* hostmasks of the users who set modes
Setters == {"op1", "op2"}

\* the channel names that occur on the wire
Channels == {"#c"}

\* BasicRFC.nick: the client's own nickname
nick == "X"

\* a user other than the client
OtherNick == "y"

\* ISupport.get("CHANMODES"): the four mode groups; modegroups[1] is
\* Python's modegroups[0], the list-type letters
modegroups == <<{"b"}, {"k"}, {"l"}, {"n"}>>

\* prefix_parse(ISupport.get("PREFIX")): status letter -> display prefix
prefixes == [m \in {"o", "v"} |-> IF m = "o" THEN "@" ELSE "+"]

ListLetters == modegroups[1]

\* Numerics.RPL_BANLIST etc. as the command of a list-reply line
default_ban_numerics_modes == [n \in {"367"} |-> "b"]

\* BaseExtension.casefold: the server-defined folding of a string
casefold(s) == IF s = "X" THEN "x" ELSE s

\* BanEntry = namedtuple("BanEntry", "string setter timestamp")
BanEntry(string, setter, timestamp) ==
    [string |-> string, setter |-> setter, timestamp |-> timestamp]

\* defaultdict(list): every letter maps to the empty list until written
EmptyBanModes == [m \in ListLetters |-> <<>>]

(* ------------------------------------------------------------------ *)
(* mode_parse (PyIRC.auxparse): mode string and parameters -> triples  *)
(* ------------------------------------------------------------------ *)

RECURSIVE mode_parse_from(_, _, _, _)
mode_parse_from(modes, i, adding, params) ==
    IF i > Len(modes) THEN <<>>
    ELSE LET c == modes[i] IN
         IF c = "+" THEN mode_parse_from(modes, i + 1, TRUE, params)
         ELSE IF c = "-" THEN mode_parse_from(modes, i + 1, FALSE, params)
         ELSE LET takes == \/ c \in modegroups[1]
                           \/ c \in modegroups[2]
                           \/ c \in DOMAIN prefixes
                           \/ (c \in modegroups[3] /\ adding)
              IN IF ~takes
                 THEN <<[mode |-> c, param |-> None, adding |-> adding]>>
                      \o mode_parse_from(modes, i + 1, adding, params)
                 ELSE IF params = <<>>
                 THEN mode_parse_from(modes, i + 1, adding, params)
                 ELSE <<[mode |-> c, param |-> Head(params), adding |-> adding]>>
                      \o mode_parse_from(modes, i + 1, adding, Tail(params))

mode_parse(modes, params) == mode_parse_from(modes, 1, TRUE, params)

(* ------------------------------------------------------------------ *)
(* BanTrack.mode: the update of one letter's list                      *)
(* ------------------------------------------------------------------ *)

\* the scan comparing the mask with the setter field of the entries: it
\* finds no entry
FoldMatches_wrongField(list, param) ==
    {i \in 1..Len(list) : casefold(param) = casefold(list[i].setter)}

\* the scan comparing the strings as they are spelled
FoldMatches_exact(list, param) ==
    {i \in 1..Len(list) : param = list[i].string}

\* the scan of lines 118-119: the indices whose string folds to param's
FoldMatches(list, param) ==
    {i \in 1..Len(list) : casefold(param) = casefold(list[i].string)}

\* least element of a non-empty set of indices: the first one enumerate()
\* reaches
First(S) == CHOOSE i \in S : \A j \in S : i <= j

\* the replacement keeping the timestamp of the entry it finds
ReplaceAt_keepTimestamp(list, i, entry) ==
    [list EXCEPT ![i] = [entry EXCEPT !.timestamp = list[i].timestamp]]

\* ban_modes[mode][i] = entry
ReplaceAt(list, i, entry) == [list EXCEPT ![i] = entry]

\* the deletion of the entry before the one found
DeleteAt_offByOne(list, i) ==
    IF i = 1 THEN list
    ELSE SubSeq(list, 1, i - 2) \o SubSeq(list, i, Len(list))

\* del ban_modes[mode][i]
DeleteAt(list, i) == SubSeq(list, 1, i - 1) \o SubSeq(list, i + 1, Len(list))

\* the update that moves a re-added entry to the end of the list
UpdateList_moveToEnd(list, entry, adding) ==
    LET S == FoldMatches(list, entry.string) IN
    IF S # {}
    THEN [list |-> IF adding THEN Append(DeleteAt(list, First(S)), entry)
                   ELSE DeleteAt(list, First(S)),
          returned |-> TRUE]
    ELSE [list |-> Append(list, entry), returned |-> FALSE]

\* lines 115-131 for one triple: the new list and whether the handler
\* returned (line 128)
UpdateList(list, entry, adding) ==
    LET S == FoldMatches(list, entry.string) IN
    IF S # {}
    THEN [list |-> IF adding THEN ReplaceAt(list, First(S), entry)
                   ELSE DeleteAt(list, First(S)),
          returned |-> TRUE]
    ELSE [list |-> Append(list, entry), returned |-> FALSE]

\* the handler setting the flag on any status change of the own nickname,
\* a revocation included
ModeStep_anyDirection(st, tr, setter, t) ==
    LET status == tr.mode \in DOMAIN prefixes /\ tr.mode # "v" IN
    IF tr.param = None THEN st
    ELSE LET sr == IF status /\ casefold(tr.param) = casefold(nick)
                   THEN TRUE ELSE st.send_request
         IN IF tr.mode \notin modegroups[1]
            THEN [st EXCEPT !.send_request = sr]
            ELSE LET u == UpdateList(st.ban_modes[tr.mode],
                                     BanEntry(tr.param, setter, t), tr.adding)
                 IN [ban_modes |-> [st.ban_modes EXCEPT ![tr.mode] = u.list],
                     send_request |-> sr,
                     returned |-> u.returned]

\* the handler without the class test of line 112: the defaultdict takes an
\* entry under any letter that carries a parameter
ModeStep_anyLetter(st, tr, setter, t) ==
    LET status == tr.mode \in DOMAIN prefixes /\ tr.mode # "v" IN
    IF tr.param = None THEN st
    ELSE IF status /\ ~((st.send_request /\ ~tr.adding) \/ (~st.send_request /\ tr.adding))
    THEN st
    ELSE LET sr == IF status /\ casefold(tr.param) = casefold(nick)
                   THEN tr.adding ELSE st.send_request
             old == IF tr.mode \in DOMAIN st.ban_modes
                    THEN st.ban_modes[tr.mode] ELSE <<>>
             u == UpdateList(old, BanEntry(tr.param, setter, t), tr.adding)
         IN [ban_modes |-> [m \in DOMAIN st.ban_modes \cup {tr.mode} |->
                               IF m = tr.mode THEN u.list ELSE st.ban_modes[m]],
             send_request |-> sr,
             returned |-> u.returned]

\* the body of the for loop, lines 97-131, on the loop state
\* st = [ban_modes, send_request, returned]
ModeStep(st, tr, setter, t) ==
    LET status == tr.mode \in DOMAIN prefixes /\ tr.mode # "v" IN
    IF tr.param = None THEN st
    ELSE IF status /\ ~((st.send_request /\ ~tr.adding) \/ (~st.send_request /\ tr.adding))
    THEN st
    ELSE LET sr == IF status /\ casefold(tr.param) = casefold(nick)
                   THEN tr.adding ELSE st.send_request
         IN IF tr.mode \notin modegroups[1]
            THEN [st EXCEPT !.send_request = sr]
            ELSE LET u == UpdateList(st.ban_modes[tr.mode],
                                     BanEntry(tr.param, setter, t), tr.adding)
                 IN [ban_modes |-> [st.ban_modes EXCEPT ![tr.mode] = u.list],
                     send_request |-> sr,
                     returned |-> u.returned]

\* the for loop of lines 95-131: stops at the first return
RECURSIVE ModeLoop(_, _, _, _, _)
ModeLoop(st, triples, i, setter, t) ==
    IF i > Len(triples) \/ st.returned THEN st
    ELSE ModeLoop(ModeStep(st, triples[i], setter, t), triples, i + 1, setter, t)

(* ------------------------------------------------------------------ *)
(* Lines delivered by the dispatcher                                   *)
(* ------------------------------------------------------------------ *)

\* one mode change as the server writes it: sign, letter, parameter
ModeItems ==
    {[adding |-> TRUE, mode |-> "b", param |-> s] : s \in Strings}
    \cup {[adding |-> FALSE, mode |-> "b", param |-> s] : s \in {"x", "y"}}
    \cup {[adding |-> a, mode |-> "o", param |-> "x"] : a \in BOOLEAN}
    \cup {[adding |-> TRUE, mode |-> "o", param |-> OtherNick],
          [adding |-> TRUE, mode |-> "v", param |-> "x"],
          [adding |-> TRUE, mode |-> "k", param |-> "y"],
          [adding |-> TRUE, mode |-> "n", param |-> None]}


\* the mode string of a line: a sign is written where it changes
RECURSIVE RenderModes(_, _, _)
RenderModes(items, i, sign) ==
    IF i > Len(items) THEN <<>>
    ELSE LET s == IF items[i].adding THEN "+" ELSE "-" IN
         (IF s = sign THEN <<>> ELSE <<s>>) \o <<items[i].mode>>
         \o RenderModes(items, i + 1, s)

\* the parameters of a line, in order
RECURSIVE RenderParams(_, _)
RenderParams(items, i) ==
    IF i > Len(items) THEN <<>>
    ELSE (IF items[i].param = None THEN <<>> ELSE <<items[i].param>>)
         \o RenderParams(items, i + 1)

\* event.line of a MODE command: hostmask, params[0], params[1], params[2:]
ModeLine(setter, target, items) ==
    [command |-> "MODE", hostmask |-> setter, target |-> target,
     modes |-> RenderModes(items, 1, ""), modeparams |-> RenderParams(items, 1)]

\* the MODE lines with n mode letters
ModeLines ==
    [n \in 0..MaxModes |->
        {ModeLine(h, c, its) :
            h \in Setters, c \in Channels, its \in [1..n -> ModeItems]}]

\* event.line of a JOIN command
JoinLines ==
    {[command |-> "JOIN", hostmask |-> n, target |-> c] :
        n \in {nick, OtherNick}, c \in Channels}

\* event.line of a list-reply numeric: params[0..3]
ListLines ==
    {[command |-> n, target |-> c, string |-> s, setter |-> h, timestamp |-> t] :
        n \in DOMAIN default_ban_numerics_modes, c \in Channels,
        s \in Strings, h \in Setters, t \in Times}

NoEvent == [command |-> "NONE"]

\* mode letters and list rows of a line, for the history's budget
Weight(line) ==
    IF line.command = "MODE" THEN Len(mode_parse(line.modes, line.modeparams))
    ELSE IF line.command \in DOMAIN default_ban_numerics_modes THEN 1
    ELSE 0

(* ------------------------------------------------------------------ *)
(* State                                                               *)
(* ------------------------------------------------------------------ *)

VARIABLES
    channels,    \* ChannelTrack: the names get_channel() finds
    ban_modes,   \* channel.ban_modes of every channel: letter -> list of BanEntry
    last,        \* history: the line handled last (NoEvent after a reset)
    clock,       \* history: what round(time()) gives during that line (0: not a MODE line)
    old_modes,   \* history: ban_modes before that line
    sent,        \* history: the commands the handler passed to self.send
    raised,      \* history: the exception the handler ended with, or None
    supported,   \* ISupport: the server has reported CHANMODES and PREFIX
    sched,       \* AutoJoin.sched: the list of timer handles
    timers,      \* scheduler: the timers that are scheduled and have not fired
    now,         \* scheduler: the time, in eighths of a second
    issued,      \* scheduler: the number of handles given out so far
    did          \* history: what AutoJoin did last

\* the state of AutoJoin and of the scheduler it uses
ajvars == <<sched, timers, now, issued, did>>

vars == <<channels, ban_modes, last, clock, old_modes, sent, raised, supported,
          sched, timers, now, issued, did>>

Init ==
    /\ channels = {}
    /\ ban_modes = [c \in Channels |-> EmptyBanModes]
    /\ last = NoEvent
    /\ clock = 0
    /\ old_modes = [c \in Channels |-> EmptyBanModes]
    /\ sent = <<>>
    /\ raised = None
    /\ supported = FALSE
    /\ sched = <<>>
    /\ timers = {}
    /\ now = 0
    /\ issued = 0
    /\ did = [hook |-> "none"]

\* the mode letters or list rows the next line may carry: the history runs
\* on from one line to the next while both are short (at most one mode
\* letter or list row); any other line is handled after a reset (NextLine)
Room ==
    IF last = NoEvent THEN MaxModes
    ELSE IF Weight(last) <= 1 THEN 1
    ELSE 0

(* ------------------------------------------------------------------ *)
(* Handlers                                                            *)
(* ------------------------------------------------------------------ *)

\* the names bound in list_numeric's frame when line 147 runs, and the
\* module's globals
ListNumericLocals == {"self", "event", "params", "string", "setter", "timestamp"}

ModuleGlobals ==
    {"time", "namedtuple", "defaultdict", "getLogger", "BaseExtension", "hook",
     "PRIORITY_LAST", "mode_parse", "prefix_parse", "Hostmask", "Numerics",
     "logger", "BanEntry", "BanTrack"}

Bound(name) == name \in ListNumericLocals \cup ModuleGlobals

\* the condition the capability provider signals when it is asked for a
\* token the server has not reported
CapabilitiesNotReady == "CapabilitiesNotReady"

\* isupport.get("CHANMODES"), isupport.get("PREFIX") of lines 90-92: whether
\* the query fails
ISupportFails == ~supported

\* the handler applying the triples without asking whether the capabilities
\* have been reported
ModeResult_capsIgnored(line, t) ==
    IF line.target \notin channels
    THEN [ban_modes |-> ban_modes, sent |-> <<>>, raised |-> None]
    ELSE LET st == ModeLoop([ban_modes |-> ban_modes[line.target],
                             send_request |-> FALSE, returned |-> FALSE],
                            mode_parse(line.modes, line.modeparams), 1,
                            line.hostmask, t)
         IN [ban_modes |-> [ban_modes EXCEPT ![line.target] = st.ban_modes],
             sent |-> IF ~st.returned /\ st.send_request
                      THEN <<[command |-> "MODE",
                              params |-> <<line.target, modegroups[1]>>]>>
                      ELSE <<>>,
             raised |-> None]

\* the handler sending the query inside the loop, once for every status
\* triple that grants the own nickname status
ModeResult_sendPerTriple(line, t) ==
    IF line.target \notin channels
    THEN [ban_modes |-> ban_modes, sent |-> <<>>, raised |-> None]
    ELSE IF ISupportFails
    THEN [ban_modes |-> ban_modes, sent |-> <<>>, raised |-> CapabilitiesNotReady]
    ELSE LET trs == mode_parse(line.modes, line.modeparams)
             st == ModeLoop([ban_modes |-> ban_modes[line.target],
                             send_request |-> FALSE, returned |-> FALSE],
                            trs, 1, line.hostmask, t)
             own == {i \in 1..Len(trs) :
                        /\ trs[i].mode \in DOMAIN prefixes /\ trs[i].mode # "v"
                        /\ trs[i].adding
                        /\ casefold(trs[i].param) = casefold(nick)}
         IN [ban_modes |-> [ban_modes EXCEPT ![line.target] = st.ban_modes],
             sent |-> [i \in 1..Cardinality(own) |->
                          [command |-> "MODE",
                           params |-> <<line.target, modegroups[1]>>]],
             raised |-> None]

\* the outcome of the handler's whole run on a known or unknown channel
ModeResult(line, t) ==
    IF line.target \notin channels
    THEN [ban_modes |-> ban_modes, sent |-> <<>>, raised |-> None]
    ELSE IF ISupportFails
    THEN [ban_modes |-> ban_modes, sent |-> <<>>, raised |-> CapabilitiesNotReady]
    ELSE LET st == ModeLoop([ban_modes |-> ban_modes[line.target],
                             send_request |-> FALSE, returned |-> FALSE],
                            mode_parse(line.modes, line.modeparams), 1,
                            line.hostmask, t)
         IN [ban_modes |-> [ban_modes EXCEPT ![line.target] = st.ban_modes],
             sent |-> IF ~st.returned /\ st.send_request
                      THEN <<[command |-> "MODE",
                              params |-> <<line.target, modegroups[1]>>]>>
                      ELSE <<>>,
             raised |-> None]

\* @hook("commands", "MODE")
mode ==
    \E n \in 0..MaxModes, t \in Times :
      /\ n <= Room
      /\ \E line \in ModeLines[n] :
        /\ \E r \in {ModeResult(line, t)} :
            /\ ban_modes' = r.ban_modes
            /\ sent' = r.sent
            /\ raised' = r.raised
        /\ last' = line
        /\ clock' = t
        /\ old_modes' = ban_modes
        /\ UNCHANGED <<channels, supported>>
        /\ UNCHANGED ajvars

\* @hook("commands", "JOIN", PRIORITY_LAST), after ChannelTrack has handled
\* the same line: the client's own JOIN made the channel known
join ==
    \E line \in JoinLines :
        /\ IF line.hostmask = nick
           THEN line.target \notin channels
           ELSE line.target \in channels
        /\ channels' = channels \cup {line.target}
        /\ ban_modes' = [ban_modes EXCEPT ![line.target] = EmptyBanModes]
        /\ last' = line
        /\ clock' = 0
        /\ old_modes' = ban_modes
        /\ sent' = <<>>
        /\ raised' = None
        /\ UNCHANGED supported
        /\ UNCHANGED ajvars

\* ChannelTrack destroys the channel (PART, KICK, disconnect); BanTrack has
\* no hook of its own, the store goes with the channel object
part ==
    \E c \in channels :
        /\ channels' = channels \ {c}
        /\ ban_modes' = [ban_modes EXCEPT ![c] = EmptyBanModes]
        /\ last' = [command |-> "PART", hostmask |-> nick, target |-> c]
        /\ clock' = 0
        /\ old_modes' = ban_modes
        /\ sent' = <<>>
        /\ raised' = None
        /\ UNCHANGED supported
        /\ UNCHANGED ajvars

\* @hook("commands", Numerics.RPL_BANLIST) ...: line 147 reads the name
\* `param`, which is neither a local nor a global, so the handler ends
\* there with NameError whatever the line is
list_numeric ==
    \E line \in ListLines :
        /\ 1 <= Room
        /\ ~Bound("param")
        /\ raised' = "NameError"
        /\ last' = line
        /\ clock' = 0
        /\ old_modes' = ban_modes
        /\ sent' = <<>>
        /\ UNCHANGED <<channels, ban_modes, supported>>
    /\ UNCHANGED ajvars
        /\ UNCHANGED ajvars

\* the dispatcher takes the next line: the history starts again
NextLine ==
    /\ last # NoEvent
    /\ last' = NoEvent
    /\ clock' = 0
    /\ old_modes' = ban_modes
    /\ sent' = <<>>
    /\ raised' = None
    /\ UNCHANGED <<channels, ban_modes, supported>>
    /\ UNCHANGED ajvars

\* ISupport handles RPL_ISUPPORT: the server reports CHANMODES and PREFIX
isupport ==
    /\ ~supported
    /\ supported' = TRUE
    /\ last' = [command |-> "005"]
    /\ clock' = 0
    /\ old_modes' = ban_modes
    /\ sent' = <<>>
    /\ raised' = None
    /\ UNCHANGED <<channels, ban_modes>>
    /\ UNCHANGED ajvars

Next == mode \/ join \/ part \/ list_numeric \/ isupport \/ NextLine

Spec == Init /\ [][Next]_vars

(* ------------------------------------------------------------------ *)
(* AutoJoin (autojoin.py) and the scheduler of the base class          *)
(* ------------------------------------------------------------------ *)

\* the number of timer handles the scheduler gives out in a run
MaxHandles == 4

\* the time after which the clock is not followed further
MaxNow == 9

\* kwargs.get('autojoin_wait_start', 0.75), in eighths of a second
wait_start == 6

\* kwargs.get('autojoin_wait_interval', 0.25), in eighths of a second
wait_interval == 2

\* self.join_dict: channel -> key, in the order items() gives them
join_dict ==
    <<[channel |-> "#a", key |-> None], [channel |-> "#b", key |-> "secret"]>>

\* lines 74-77: the parameters of the JOIN of one channel
JoinParams(item) ==
    IF item.key = None THEN <<item.channel>> ELSE <<item.channel, item.key>>

\* the state BanTrack owns, which AutoJoin never touches
btvars == <<channels, ban_modes, last, clock, old_modes, supported>>

\* the handles in self.sched
Handles == {sched[i] : i \in 1..Len(sched)}

\* the scheduler runs the timer that is due first, and of two due at the
\* same time the one scheduled first
FiresNext(tm) ==
    /\ tm \in timers
    /\ tm.due <= now
    /\ \A o \in timers :
          o.due > tm.due \/ (o.due = tm.due /\ o.handle >= tm.handle)

\* RPL_WELCOME: lines 69-82, one timer per channel, its handle appended
autojoin ==
    /\ issued + Len(join_dict) <= MaxHandles
    /\ timers' = timers \cup
          {[handle |-> issued + k,
            due |-> now + wait_start + (k - 1) * wait_interval,
            params |-> JoinParams(join_dict[k]),
            stale |-> FALSE] : k \in 1..Len(join_dict)}
    /\ sched' = sched \o [k \in 1..Len(join_dict) |-> issued + k]
    /\ issued' = issued + Len(join_dict)
    /\ did' = [hook |-> "autojoin"]
    /\ sent' = <<>>
    /\ raised' = None
    /\ UNCHANGED now
    /\ UNCHANGED btvars

\* a timer fires: lines 65-67, send the JOIN and pop the head of self.sched
do_join ==
    \E tm \in timers :
        /\ FiresNext(tm)
        /\ timers' = timers \ {tm}
        /\ sent' = <<[command |-> "JOIN", params |-> tm.params]>>
        /\ sched' = IF sched = <<>> THEN sched ELSE Tail(sched)
        /\ raised' = IF sched = <<>> THEN "IndexError" ELSE None
        /\ did' = [hook |-> "do_join", handle |-> tm.handle, stale |-> tm.stale]
        /\ UNCHANGED <<now, issued>>
        /\ UNCHANGED btvars

\* the "disconnected" hook: lines 84-91, unschedule every handle of
\* self.sched (a handle that is not scheduled raises ValueError, which is
\* caught), then clear the list; the timers left over were scheduled before
\* this disconnect
close ==
    /\ timers' = {[tm EXCEPT !.stale = TRUE] :
                     tm \in {o \in timers : o.handle \notin Handles}}
    /\ sched' = <<>>
    /\ did' = [hook |-> "close"]
    /\ sent' = <<>>
    /\ raised' = None
    /\ UNCHANGED <<now, issued>>
    /\ UNCHANGED btvars

\* time passes once every due timer has run
Tick ==
    /\ now < MaxNow
    /\ \A tm \in timers : tm.due > now
    /\ now' = now + 1
    /\ UNCHANGED <<sched, timers, issued, did, sent, raised>>
    /\ UNCHANGED btvars

NextAutoJoin == autojoin \/ do_join \/ close \/ Tick

SpecAutoJoin == Init /\ [][NextAutoJoin]_vars

(* ------------------------------------------------------------------ *)
(* Reading the history                                                 *)
(* ------------------------------------------------------------------ *)

\* the triples of a MODE line
Triples(line) == mode_parse(line.modes, line.modeparams)

\* a MODE line for a known channel, handled with the capabilities reported
ModeOnKnown(line) ==
    line.command = "MODE" /\ line.target \in channels /\ supported

\* a MODE line that carries exactly one triple, on a list letter, in the
\* given direction
SingleListMode(line, adding) ==
    /\ line.command = "MODE"
    /\ Len(Triples(line)) = 1
    /\ Triples(line)[1].mode \in ListLetters
    /\ Triples(line)[1].adding = adding

TheLetter(line) == Triples(line)[1].mode
TheMask(line) == Triples(line)[1].param

\* a list-reply line for a known channel
ListOnKnown(line) ==
    line.command \in DOMAIN default_ban_numerics_modes /\ line.target \in channels

\* the folded masks of a list, in order
FoldedMasks(list) == [i \in 1..Len(list) |-> casefold(list[i].string)]

\* a sequence without the repetitions of its elements
RECURSIVE Dedup(_)
Dedup(seq) ==
    IF seq = <<>> THEN <<>>
    ELSE LET front == Dedup(SubSeq(seq, 1, Len(seq) - 1))
             x == seq[Len(seq)]
         IN IF \E i \in 1..Len(front) : front[i] = x THEN front
            ELSE Append(front, x)

\* a list without the entries whose mask folds to M's
Without(list, M) ==
    SelectSeq(list, LAMBDA e : casefold(e.string) # casefold(M))

\* the indices whose mask folds to M's
Folding(list, M) ==
    {i \in 1..Len(list) : casefold(list[i].string) = casefold(M)}

\* the indices whose string is exactly s
ExactMatches(list, s) == {i \in 1..Len(list) : list[i].string = s}

(* ------------------------------------------------------------------ *)
(* Properties                                                          *)
(* ------------------------------------------------------------------ *)

\* C1: a MODE line that removes a mask matching (case-folded) no entry of
\* its letter leaves the whole store as it was.
C1_RemoveWithoutMatchIsNoOp ==
    (ModeOnKnown(last) /\ SingleListMode(last, FALSE)
     /\ Folding(old_modes[last.target][TheLetter(last)], TheMask(last)) = {})
    => ban_modes = old_modes

\* a MODE line that gives the client's own nickname operator status and
\* nowhere takes it away
GrantsOwnOp(line) ==
    /\ \E i \in 1..Len(Triples(line)) :
          /\ Triples(line)[i].mode = "o"
          /\ Triples(line)[i].adding
          /\ casefold(Triples(line)[i].param) = casefold(nick)
    /\ \A i \in 1..Len(Triples(line)) :
          (Triples(line)[i].mode = "o" /\ ~Triples(line)[i].adding)
          => casefold(Triples(line)[i].param) # casefold(nick)

\* the MODE query for a channel's list-type letters
ListQuery(c) == [command |-> "MODE", params |-> <<c, modegroups[1]>>]

\* C2: a MODE line on a known channel that grants the client's own nickname
\* operator status sends exactly one MODE list query for the channel,
\* whatever other triples the line carries.
C2_OwnOpSendsOneQuery ==
    (ModeOnKnown(last) /\ GrantsOwnOp(last))
    => sent = <<ListQuery(last.target)>>

\* C3: the store is created empty by the client's own JOIN, and a JOIN of
\* another user to a tracked channel leaves its entries as they were.
C3_OnlyOwnJoinCreatesStore ==
    /\ (last.command = "JOIN" /\ last.hostmask = nick)
       => ban_modes[last.target] = EmptyBanModes
    /\ (last.command = "JOIN" /\ last.hostmask # nick)
       => ban_modes = old_modes

\* C4: after one MODE line +b-b M M on a known channel no entry under b
\* folds to M, whatever the store held before.
C4_AddThenRemoveInOneLine ==
    (/\ ModeOnKnown(last)
     /\ Len(Triples(last)) = 2
     /\ Triples(last)[1].mode = "b" /\ Triples(last)[1].adding
     /\ Triples(last)[2].mode = "b" /\ ~Triples(last)[2].adding
     /\ Triples(last)[1].param = Triples(last)[2].param)
    => Folding(ban_modes[last.target]["b"], Triples(last)[1].param) = {}

\* C5: a MODE line adding M followed by a MODE line removing M (or a
\* spelling of M that folds to the same) leaves no entry for M under the
\* letter, and the rest of the store is what it was before the two lines.
C5_AddThenRemoveRestores ==
    [][(/\ ModeOnKnown(last) /\ SingleListMode(last, TRUE)
        /\ SingleListMode(last', FALSE)
        /\ last'.target = last.target
        /\ TheLetter(last') = TheLetter(last)
        /\ casefold(TheMask(last')) = casefold(TheMask(last)))
       => /\ Folding(ban_modes'[last.target][TheLetter(last)], TheMask(last)) = {}
          /\ ban_modes' = [old_modes EXCEPT ![last.target][TheLetter(last)] =
                              Without(@, TheMask(last))]]_vars

\* a remove of a mask has just been handled on a list that held the mask's
\* entry in the other spelling, after another entry
C5_Witness ==
    /\ ModeOnKnown(last) /\ SingleListMode(last, FALSE)
    /\ TheMask(last) = "x"
    /\ Len(old_modes[last.target]["b"]) = 2
    /\ old_modes[last.target]["b"][2].string = "X"
    /\ Len(ban_modes[last.target]["b"]) = 1
    /\ ban_modes[last.target]["b"][1].string = "y"

\* C6: the same add of mask M by setter S applied twice leaves exactly one
\* entry for M, with setter S and the clock value of the second application.
C6_ReAddUpdatesTimestamp ==
    [][(/\ ModeOnKnown(last) /\ SingleListMode(last, TRUE)
        /\ last'.command = "MODE"
        /\ last'.hostmask = last.hostmask
        /\ last'.target = last.target
        /\ last'.modes = last.modes
        /\ last'.modeparams = last.modeparams)
       => LET after == ban_modes'[last.target][TheLetter(last)]
              S == Folding(after, TheMask(last))
          IN /\ Cardinality(S) = 1
             /\ \A i \in S :
                   after[i] = BanEntry(TheMask(last), last.hostmask, clock')]_vars

\* the second of two equal adds has just been handled at a later clock value
\* than the entry it found
C6_Witness ==
    /\ ModeOnKnown(last) /\ SingleListMode(last, TRUE)
    /\ clock = 200
    /\ \E i \in 1..Len(old_modes[last.target]["b"]) :
          /\ old_modes[last.target]["b"][i] = BanEntry(TheMask(last), last.hostmask, 100)
          /\ ban_modes[last.target]["b"][i] = BanEntry(TheMask(last), last.hostmask, 200)
    /\ Len(ban_modes[last.target]["b"]) = Len(old_modes[last.target]["b"])

\* C7: no letter's list ever holds two entries whose masks are equal after
\* case-folding, and adding a mask that differs only in case from a listed
\* one rewrites that entry instead of adding a second one.
C7_NoFoldedDuplicates ==
    /\ \A c \in Channels : \A m \in ListLetters :
          \A i, j \in 1..Len(ban_modes[c][m]) :
             casefold(ban_modes[c][m][i].string) = casefold(ban_modes[c][m][j].string)
             => i = j
    /\ (ModeOnKnown(last) /\ SingleListMode(last, TRUE))
       => LET old == old_modes[last.target][TheLetter(last)]
              new == ban_modes[last.target][TheLetter(last)]
          IN \A i \in Folding(old, TheMask(last)) :
                /\ Len(new) = Len(old)
                /\ new[i].string = TheMask(last)

\* "X" has just been added to a list that held "x"
C7_Witness ==
    /\ ModeOnKnown(last) /\ SingleListMode(last, TRUE)
    /\ TheMask(last) = "X"
    /\ \E i \in 1..Len(old_modes[last.target]["b"]) :
          /\ old_modes[last.target]["b"][i].string = "x"
          /\ ban_modes[last.target]["b"][i].string = "X"

C9_ListRowExactMatch ==
    ListOnKnown(last)
    => LET m == default_ban_numerics_modes[last.command]
           old == old_modes[last.target][m]
           new == ban_modes[last.target][m]
       IN \A i \in ExactMatches(old, last.string) :
             /\ old[i].timestamp = last.timestamp => ban_modes = old_modes
             /\ (old[i].timestamp # last.timestamp
                 /\ casefold(old[i].setter) # casefold(last.setter))
                => new = [old EXCEPT ![i] =
                             BanEntry(last.string, last.setter, last.timestamp)]

\* C10: a list-reply row whose mask is exactly no entry's mask is appended
\* at the end of its letter's list.
C10_ListRowAppends ==
    (ListOnKnown(last)
     /\ ExactMatches(old_modes[last.target][default_ban_numerics_modes[last.command]],
                     last.string) = {})
    => ban_modes[last.target][default_ban_numerics_modes[last.command]]
       = Append(old_modes[last.target][default_ban_numerics_modes[last.command]],
                BanEntry(last.string, last.setter, last.timestamp))

\* C11: a MODE line or a list-reply row that names a channel the registry
\* does not know is ignored without an error: nothing is raised, nothing is
\* sent and every channel's store is as it was.
C11_UnknownChannelIgnored ==
    ((last.command = "MODE" \/ last.command \in DOMAIN default_ban_numerics_modes)
     /\ last.target \notin channels)
    => (raised = None /\ sent = <<>> /\ ban_modes = old_modes)

\* C12: a list-reply row whose mask is exactly an entry's mask, with another
\* timestamp and the same (folded) setter, ends in the internal-consistency
\* error (the assertion of lines 167-168) and leaves the store as it was.
C12_DesyncIsReported ==
    (ListOnKnown(last)
     /\ \E i \in ExactMatches(old_modes[last.target][default_ban_numerics_modes[last.command]],
                              last.string) :
           LET e == old_modes[last.target][default_ban_numerics_modes[last.command]][i]
           IN e.timestamp # last.timestamp
              /\ casefold(e.setter) = casefold(last.setter))
    => (raised = "AssertionError" /\ ban_modes = old_modes)

RECURSIVE AppliedSeparately(_, _, _, _, _)
AppliedSeparately(store, triples, i, setter, t) ==
    IF i > Len(triples) THEN store
    ELSE AppliedSeparately(
             ModeLoop([ban_modes |-> store, send_request |-> FALSE,
                       returned |-> FALSE],
                      <<triples[i]>>, 1, setter, t).ban_modes,
             triples, i + 1, setter, t)

\* C14: every triple of a MODE line is applied, in order: the store after
\* the line is the store after its triples delivered as separate
\* single-triple lines by the same setter at the same clock value.
C14_EveryTripleApplied ==
    ModeOnKnown(last)
    => ban_modes[last.target]
       = AppliedSeparately(old_modes[last.target], Triples(last), 1,
                           last.hostmask, clock)

\* the status triples of a line that grant the own nickname a status other
\* than voice
OwnGrants(line) ==
    {i \in 1..Len(Triples(line)) :
        /\ Triples(line)[i].mode \in DOMAIN prefixes
        /\ Triples(line)[i].mode # "v"
        /\ Triples(line)[i].adding
        /\ casefold(Triples(line)[i].param) = casefold(nick)}

\* C15: handling one MODE line sends at most one command, however many of
\* its status triples target the own nickname, and handling a list-reply row
\* sends none.
C15_AtMostOneCommand ==
    /\ last.command = "MODE" => Len(sent) <= 1
    /\ last.command \in DOMAIN default_ban_numerics_modes => sent = <<>>

\* a MODE line with two grants to the own nickname has been handled and one
\* query was sent
C15_Witness ==
    /\ ModeOnKnown(last)
    /\ Cardinality(OwnGrants(last)) = 2
    /\ sent = <<ListQuery(last.target)>>

\* the status triples of a line, granting or revoking, that name the own
\* nickname with a status other than voice
OwnStatus(line) ==
    {i \in 1..Len(Triples(line)) :
        /\ Triples(line)[i].mode \in DOMAIN prefixes
        /\ Triples(line)[i].mode # "v"
        /\ Triples(line)[i].param # None
        /\ casefold(Triples(line)[i].param) = casefold(nick)}

\* the last own status triple of the line is a grant
NetGrant(line) ==
    /\ OwnStatus(line) # {}
    /\ \E i \in OwnStatus(line) :
          /\ \A k \in OwnStatus(line) : k <= i
          /\ Triples(line)[i].adding

\* the line has a triple of a list letter
HasListTriple(line) ==
    \E i \in 1..Len(Triples(line)) : Triples(line)[i].mode \in ListLetters

C17_NonListTriplesLeaveStore ==
    ModeOnKnown(last) /\ ~HasListTriple(last) => ban_modes = old_modes

\* such a line, with a status triple, a parameter-carrying non-list triple
\* or a parameterless one, has been handled while the channel had an entry
C17_Witness ==
    /\ ModeOnKnown(last)
    /\ ~HasListTriple(last)
    /\ Len(Triples(last)) = 2
    /\ \E i \in 1..2 : Triples(last)[i].mode \in DOMAIN prefixes
    /\ \E i \in 1..2 : Triples(last)[i].mode \in modegroups[2]
    /\ ban_modes[last.target]["b"] # <<>>
    /\ ban_modes = old_modes

\* C18: a list-reply row whose mask differs only in letter case from an
\* entry's mask is no match: the row is appended at the end as an entry of
\* its own and the entries already there stay as they were.
C18_ListRowCaseIsNoMatch ==
    (ListOnKnown(last)
     /\ ExactMatches(old_modes[last.target][default_ban_numerics_modes[last.command]],
                     last.string) = {}
     /\ Folding(old_modes[last.target][default_ban_numerics_modes[last.command]],
                last.string) # {})
    => LET m == default_ban_numerics_modes[last.command]
           old == old_modes[last.target][m]
           new == ban_modes[last.target][m]
       IN /\ Len(new) = Len(old) + 1
          /\ SubSeq(new, 1, Len(old)) = old
          /\ new[Len(new)] = BanEntry(last.string, last.setter, last.timestamp)

\* C19: in every reachable state, whatever MODE lines and list-reply rows
\* were handled, no letter's list of any channel holds two entries with
\* exactly the same mask string.
C19_NoExactDuplicates ==
    \A c \in DOMAIN ban_modes : \A m \in DOMAIN ban_modes[c] :
        \A i, k \in 1..Len(ban_modes[c][m]) :
            ban_modes[c][m][i].string = ban_modes[c][m][k].string => i = k

\* a MODE line has just added a mask that one of two entries already
\* carried, letter for letter
C19_Witness ==
    /\ ModeOnKnown(last)
    /\ SingleListMode(last, TRUE)
    /\ ExactMatches(old_modes[last.target][TheLetter(last)], TheMask(last)) # {}
    /\ Len(old_modes[last.target][TheLetter(last)]) = 2
    /\ Len(ban_modes[last.target][TheLetter(last)]) = 2

\* C20: whatever RPL_WELCOME events, timer firings and disconnects have
\* happened, self.sched holds exactly the handles of the joins that are
\* scheduled and have not fired; right after a disconnect no join is left
\* scheduled and self.sched is empty; and no JOIN that was scheduled before
\* a disconnect is sent after it.
C20_SchedHoldsUnfiredJoins ==
    /\ Handles = {tm.handle : tm \in timers}
    /\ \A i, k \in 1..Len(sched) : sched[i] = sched[k] => i = k
    /\ did.hook = "close" => (timers = {} /\ sched = <<>>)
    /\ did.hook = "do_join" => ~did.stale

====
